---------------------------- MODULE Spec2Model ----------------------------
(***************************************************************************)
(* Model of app.py, the simulated-NIRS cognitive load visualizer.          *)
(*                                                                         *)
(* The script is executed from top to bottom every time a sidebar widget   *)
(* changes or the "Start Simulation" button is pressed.  The state is the  *)
(* widget values, the script's variables, the elements the if/else block   *)
(* has written to the page, and the statement the execution has reached.   *)
(*                                                                         *)
(* Numbers.  A float64 sample value is an integer count of 1e-5 (SCALE     *)
(* units per 1.0); a product or quotient is rounded to the nearest unit.   *)
(* The time axis and the decimal literals of the script are exact          *)
(* rationals <<numerator, denominator>>.  The index coi is the quotient    *)
(* <<numerator, denominator>> of two sample-unit values, left undivided,   *)
(* so a zero denominator is the float division by zero (inf or nan).       *)
(***************************************************************************)
EXTENDS Integers, Sequences, FiniteSets

VARIABLES
    task,           \* sidebar radio value                     (line 21)
    duration,       \* sidebar slider value, seconds           (line 26)
    noise_level,    \* sidebar slider value, in hundredths     (line 27)
    start,          \* value returned by the button            (line 29)
    task_params,    \* the task table                          (line 44)
    pc,             \* statement the execution has reached
    page,           \* elements written by the if/else block   (lines 55-96)
    error,          \* exception that ended the execution, or "none"
    t,              \* time vector, exact rationals            (line 59)
    params,         \* <<>> or << the looked-up entry >>       (line 60)
    base_hrf,       \* hrf on the 30 s grid                    (line 63)
    smoothed_hrf,   \* value of the np.convolve call           (line 66)
    signal,         \* modulated signal, then with noise       (lines 64-68)
    draws,          \* value of np.random.randn(len(t))        (line 68)
    oxy,            \* Oxy-Hb channel                          (line 71)
    deoxy,          \* Deoxy-Hb channel                        (line 72)
    coi             \* <<>> or <<numerator, denominator>>      (line 85)

vars == << task, duration, noise_level, start, task_params, pc, page, error,
           t, params, base_hrf, smoothed_hrf, signal, draws, oxy, deoxy, coi >>

-----------------------------------------------------------------------------
(* Fixed-point arithmetic *)

SCALE == 100000

\* a / b rounded to the nearest integer (b > 0)
RoundDiv(a, b) == (2 * a + b) \div (2 * b)

\* product of two sample values
FxMul(a, b) == RoundDiv(a * b, SCALE)

\* product of the decimal literal c = <<m, d>> and the sample value x
DecMul(c, x) == RoundDiv(c[1] * x, c[2])

Abs(x) == IF x < 0 THEN -x ELSE x

RECURSIVE SumRange(_, _, _)
SumRange(x, lo, hi) ==
    IF lo > hi THEN 0
    ELSE IF lo = hi THEN x[lo]
    ELSE LET mid == (lo + hi) \div 2
         IN  SumRange(x, lo, mid) + SumRange(x, mid + 1, hi)

\* np.mean
Mean(x) == RoundDiv(SumRange(x, 1, Len(x)), Len(x))

-----------------------------------------------------------------------------
(* np.sin: sin(k degrees) * SCALE for k = 0..90, linear in between *)

SinTable ==
    << 0, 1745, 3490, 5234, 6976, 8716, 10453, 12187, 13917, 15643,
       17365, 19081, 20791, 22495, 24192, 25882, 27564, 29237, 30902, 32557,
       34202, 35837, 37461, 39073, 40674, 42262, 43837, 45399, 46947, 48481,
       50000, 51504, 52992, 54464, 55919, 57358, 58779, 60182, 61566, 62932,
       64279, 65606, 66913, 68200, 69466, 70711, 71934, 73135, 74314, 75471,
       76604, 77715, 78801, 79864, 80902, 81915, 82904, 83867, 84805, 85717,
       86603, 87462, 88295, 89101, 89879, 90631, 91355, 92050, 92718, 93358,
       93969, 94552, 95106, 95630, 96126, 96593, 97030, 97437, 97815, 98163,
       98481, 98769, 99027, 99255, 99452, 99619, 99756, 99863, 99939, 99985,
       100000 >>

\* sin of a whole number of degrees, 0..360
SinDeg(k) ==
    IF k <= 90 THEN SinTable[k + 1]
    ELSE IF k <= 180 THEN SinTable[181 - k]
    ELSE IF k <= 270 THEN -SinTable[k - 179]
    ELSE -SinTable[361 - k]

\* sin(pi * n / d) for n >= 0, d > 0
SinPi(n, d) ==
    LET a   == (n % (2 * d)) * 180
        deg == a \div d
        rem == a % d
    IN  SinDeg(deg) + RoundDiv((SinDeg(deg + 1) - SinDeg(deg)) * rem, d)

-----------------------------------------------------------------------------
(* hrf: the value of the double-gamma expression at t = k/2 s, k = 0..60,  *)
(* times SCALE, linear in between                                          *)

HrfTable ==
    << 0, 1, 51, 353, 1203, 2783, 5041, 7710, 10420, 12812,
       14621, 15709, 16057, 15736, 14876, 13628, 12139, 10538, 8928, 7381,
       5945, 4648, 3501, 2502, 1647, 924, 322, -171, -567, -877,
       -1110, -1277, -1385, -1443, -1460, -1441, -1395, -1328, -1246, -1152,
       -1053, -952, -852, -754, -662, -576, -497, -426, -362, -305,
       -256, -213, -177, -145, -119, -97, -78, -63, -50, -40,
       -32 >>

\* hrf(x) for the rational x = <<n, d>>, 0 <= x <= 30
hrf(x) ==
    LET a   == 2 * x[1]
        k   == a \div x[2]
        rem == a % x[2]
    IN  IF k >= 60 THEN HrfTable[61]
        ELSE HrfTable[k + 1]
             + RoundDiv((HrfTable[k + 2] - HrfTable[k + 1]) * rem, x[2])

-----------------------------------------------------------------------------
(* numpy array functions *)

\* linspace with the endpoint left out: num steps and no last sample at stop
linspace_open(first, stop, num) ==
    [i \in 1..num |-> << first * num + (i - 1) * (stop - first), num >>]

\* np.linspace(first, stop, num), endpoint included: num - 1 equal steps,
\* and the last sample is set to stop itself
linspace(first, stop, num) ==
    LET div == num - 1
    IN  [i \in 1..num |->
            IF i = num THEN << stop, 1 >>
            ELSE << first * div + (i - 1) * (stop - first), div >>]

\* np.ones(n) / q
ones_over(n, q) == [i \in 1..n |-> RoundDiv(SCALE, q)]

RECURSIVE Taps(_, _, _, _)
\* sum over p = 1..m of k[p] * x[j - p + 1], taps outside x counting as zero
Taps(k, x, j, m) ==
    IF m = 0 THEN 0
    ELSE LET q == j - m + 1
         IN  (IF q >= 1 /\ q <= Len(x) THEN FxMul(k[m], x[q]) ELSE 0)
             + Taps(k, x, j, m - 1)

\* convolve keeping the head of the full convolution instead of its middle
convolve_head(a, v) ==
    LET x == IF Len(v) > Len(a) THEN v ELSE a
        k == IF Len(v) > Len(a) THEN a ELSE v
    IN  [i \in 1..Len(x) |-> Taps(k, x, i, Len(k))]

\* np.convolve(a, v, mode="same"): the longer argument is the signal, the
\* shorter the kernel; the result is the middle of the full convolution and
\* is as long as the longer argument
convolve_same(a, v) ==
    LET x   == IF Len(v) > Len(a) THEN v ELSE a
        k   == IF Len(v) > Len(a) THEN a ELSE v
        off == (Len(k) - 1) \div 2
    IN  [i \in 1..Len(x) |-> Taps(k, x, i + off, Len(k))]

-----------------------------------------------------------------------------
(* The sidebar *)

RadioOptions ==
    { "Resting State", "Visual Task", "Language Task", "Motor Task",
      "Cognitive Test" }

\* A name outside the table: the script body run by a caller that does not
\* restrict the name to the radio's options.
UnknownTask == "Not A Task"

TaskNames == RadioOptions \cup { UnknownTask }

DurationMin == 5
DurationMax == 30
DurationDefault == 15
Durations == DurationMin..DurationMax

NoiseMin == 0
NoiseMax == 50
NoiseDefault == 10
NoiseLevels == { NoiseMin, NoiseDefault, NoiseMax }

SampleRate == 20

TaskTable ==
    [ name \in RadioOptions |->
        CASE name = "Resting State"  -> [amp |-> << 2, 10 >>,  freq |-> << 10, 100 >>]
          [] name = "Visual Task"    -> [amp |-> << 10, 10 >>, freq |-> << 25, 100 >>]
          [] name = "Language Task"  -> [amp |-> << 8, 10 >>,  freq |-> << 20, 100 >>]
          [] name = "Motor Task"     -> [amp |-> << 12, 10 >>, freq |-> << 30, 100 >>]
          [] name = "Cognitive Test" -> [amp |-> << 15, 10 >>, freq |-> << 35, 100 >>] ]

-----------------------------------------------------------------------------
(* np.random.randn(n): the draws of one run are one of a few vectors.  A   *)
(* vector holds a level a (a whole number of standard deviations) at its   *)
(* odd indices and a or -a at its even indices; one more vector has every  *)
(* draw at -0.05561, a sample mean at which the two channel means of a     *)
(* 20 s run at noise level 0.5 cancel in line 85.                          *)

MaxDraw == 1

DrawLevels == { k * SCALE : k \in (-MaxDraw)..MaxDraw }

DrawVectors(n) ==
    { [i \in 1..n |-> a] : a \in DrawLevels }
    \cup { [i \in 1..n |-> IF i % 2 = 1 THEN a ELSE -a] : a \in DrawLevels }
    \cup { [i \in 1..n |-> -5561] }

-----------------------------------------------------------------------------
(* The statements of the simulation block, as functions of their operands *)

\* line 59 with one sample more, a step of exactly 1 / SampleRate
TimeVectorOf_fencepost(dur) == linspace(0, dur, dur * SampleRate + 1)

\* line 59
TimeVectorOf(dur) == linspace(0, dur, dur * SampleRate)

\* line 63
BaseHrfOf(tt) ==
    LET grid == linspace(0, 30, Len(tt))
    IN  [i \in 1..Len(tt) |-> hrf(grid[i])]

\* line 66
SmoothedOf(base) == convolve_same(ones_over(5, 5), base)

\* lines 64-67: params["amp"] * sin(2 pi params["freq"] t) + smoothed
ModulatedOf(p, tt, sm) ==
    [i \in 1..Len(tt) |->
        DecMul(p.amp, SinPi(2 * p.freq[1] * tt[i][1], p.freq[2] * tt[i][2]))
        + sm[i]]

\* line 68 without the factor noise_level
NoisyOf_unscaled(sig, nl, z) == [i \in 1..Len(sig) |-> sig[i] + z[i]]

\* line 68: signal += noise_level * randn
NoisyOf(sig, nl, z) ==
    [i \in 1..Len(sig) |-> sig[i] + DecMul(<< nl, 100 >>, z[i])]

\* sin(0.1 pi t)
Drift(x) == SinPi(x[1], 10 * x[2])

\* line 71
OxyOf(sig, tt) ==
    [i \in 1..Len(sig) |-> sig[i] + DecMul(<< 5, 10 >>, Drift(tt[i]))]

\* line 72
DeoxyOf(sig, tt) ==
    [i \in 1..Len(sig) |->
        DecMul(<< -6, 10 >>, sig[i]) + DecMul(<< 2, 10 >>, Drift(tt[i]))]

\* line 85: mean(oxy) / (mean(oxy) + abs(mean(deoxy)) + 1e-5)
CoiOf(ox, de) == << Mean(ox), Mean(ox) + Abs(Mean(de)) + 1 >>

\* c > q for the quotient c = <<n, d>> and the decimal literal q, as float64
\* compares: a zero denominator makes c +inf, -inf or nan
Gt(c, q) ==
    IF c[2] > 0 THEN c[1] * q[2] > q[1] * c[2]
    ELSE IF c[2] < 0 THEN c[1] * q[2] < q[1] * c[2]
    ELSE c[1] > 0

\* c >= q, as float64 compares
Ge(c, q) ==
    IF c[2] > 0 THEN c[1] * q[2] >= q[1] * c[2]
    ELSE IF c[2] < 0 THEN c[1] * q[2] =< q[1] * c[2]
    ELSE c[1] > 0

\* lines 89-94 with >= for >
InterpretOf_ge(c) ==
    IF Ge(c, << 55, 100 >>) THEN "success"
    ELSE IF Ge(c, << 45, 100 >>) THEN "warning"
    ELSE "error"

\* lines 89-94
InterpretOf(c) ==
    IF Gt(c, << 55, 100 >>) THEN "success"
    ELSE IF Gt(c, << 45, 100 >>) THEN "warning"
    ELSE "error"

-----------------------------------------------------------------------------
(* Script executions *)

\* The variables of a fresh execution before the if/else block: the widgets
\* hold their values and lines 1-50 have built the task table.
Fresh(tk, dur, nl, st) ==
    /\ task' = tk
    /\ duration' = dur
    /\ noise_level' = nl
    /\ start' = st
    /\ task_params' = TaskTable
    /\ error' = "none"
    /\ t' = << >>
    /\ params' = << >>
    /\ base_hrf' = << >>
    /\ smoothed_hrf' = << >>
    /\ signal' = << >>
    /\ draws' = << >>
    /\ oxy' = << >>
    /\ deoxy' = << >>
    /\ coi' = << >>

\* lines 95-96: an execution whose button value is False
Untriggered(tk, dur, nl) ==
    /\ pc \in { "done", "failed" }
    /\ Fresh(tk, dur, nl, FALSE)
    /\ page' = << "info" >>
    /\ pc' = "done"

Init ==
    /\ task = "Resting State"
    /\ duration = DurationDefault
    /\ noise_level = NoiseDefault
    /\ start = FALSE
    /\ task_params = TaskTable
    /\ pc = "done"
    /\ page = << "info" >>
    /\ error = "none"
    /\ t = << >>
    /\ params = << >>
    /\ base_hrf = << >>
    /\ smoothed_hrf = << >>
    /\ signal = << >>
    /\ draws = << >>
    /\ oxy = << >>
    /\ deoxy = << >>
    /\ coi = << >>

ChangeTask ==
    \E tk \in TaskNames \ { task } : Untriggered(tk, duration, noise_level)

ChangeDuration ==
    \E dur \in Durations \ { duration } : Untriggered(task, dur, noise_level)

ChangeNoise ==
    \E nl \in NoiseLevels \ { noise_level } : Untriggered(task, duration, nl)

\* the button is pressed: lines 1-55 of a new execution
PressStart ==
    /\ pc \in { "done", "failed" }
    /\ Fresh(task, duration, noise_level, TRUE)
    /\ page' = << >>
    /\ pc' = "L56"

\* line 56
WriteHeader ==
    /\ pc = "L56"
    /\ page' = Append(page, "header")
    /\ pc' = "L59"
    /\ UNCHANGED << task, duration, noise_level, start, task_params, error,
                    t, params, base_hrf, smoothed_hrf, signal, draws, oxy,
                    deoxy, coi >>

\* line 59
TimeVector ==
    /\ pc = "L59"
    /\ t' = TimeVectorOf(duration)
    /\ pc' = "L60"
    /\ UNCHANGED << task, duration, noise_level, start, task_params, page,
                    error, params, base_hrf, smoothed_hrf, signal, draws, oxy,
                    deoxy, coi >>

\* line 60 as task_params.get(task, <first entry>): no name raises
LookupParams_default ==
    /\ pc = "L60"
    /\ params' = << IF task \in DOMAIN task_params
                    THEN task_params[task]
                    ELSE task_params["Resting State"] >>
    /\ pc' = "L63"
    /\ UNCHANGED << task, duration, noise_level, start, task_params, page,
                    error, t, base_hrf, smoothed_hrf, signal, draws, oxy,
                    deoxy, coi >>

\* line 60 as task_params.pop(task): the entry leaves the table
LookupParams_pop ==
    /\ pc = "L60"
    /\ IF task \in DOMAIN task_params
       THEN /\ params' = << task_params[task] >>
            /\ task_params' =
                   [name \in DOMAIN task_params \ { task } |-> task_params[name]]
            /\ pc' = "L63"
            /\ error' = error
       ELSE /\ params' = params
            /\ task_params' = task_params
            /\ pc' = "failed"
            /\ error' = "KeyError"
    /\ UNCHANGED << task, duration, noise_level, start, page, t, base_hrf,
                    smoothed_hrf, signal, draws, oxy, deoxy, coi >>

\* line 60: the subscript raises KeyError for a name that is no key
LookupParams ==
    /\ pc = "L60"
    /\ IF task \in DOMAIN task_params
       THEN /\ params' = << task_params[task] >>
            /\ pc' = "L63"
            /\ error' = error
       ELSE /\ params' = params
            /\ pc' = "failed"
            /\ error' = "KeyError"
    /\ UNCHANGED << task, duration, noise_level, start, task_params, page,
                    t, base_hrf, smoothed_hrf, signal, draws, oxy, deoxy, coi >>

\* line 63
BaseHrf ==
    /\ pc = "L63"
    /\ base_hrf' = BaseHrfOf(t)
    /\ pc' = "L64"
    /\ UNCHANGED << task, duration, noise_level, start, task_params, page,
                    error, t, params, smoothed_hrf, signal, draws, oxy, deoxy,
                    coi >>

\* lines 64-67
ModulatedSignal ==
    /\ pc = "L64"
    /\ smoothed_hrf' = SmoothedOf(base_hrf)
    /\ signal' = ModulatedOf(params[1], t, smoothed_hrf')
    /\ pc' = "L68"
    /\ UNCHANGED << task, duration, noise_level, start, task_params, page,
                    error, t, params, base_hrf, draws, oxy, deoxy, coi >>

\* line 68
AddNoise ==
    /\ pc = "L68"
    /\ \E z \in DrawVectors(Len(t)) :
        /\ draws' = z
        /\ signal' = NoisyOf(signal, noise_level, z)
    /\ pc' = "L71"
    /\ UNCHANGED << task, duration, noise_level, start, task_params, page,
                    error, t, params, base_hrf, smoothed_hrf, oxy, deoxy, coi >>

\* lines 71-72
Channels ==
    /\ pc = "L71"
    /\ oxy' = OxyOf(signal, t)
    /\ deoxy' = DeoxyOf(signal, t)
    /\ pc' = "L75"
    /\ UNCHANGED << task, duration, noise_level, start, task_params, page,
                    error, t, params, base_hrf, smoothed_hrf, signal, draws,
                    coi >>

\* lines 75-82
Plot ==
    /\ pc = "L75"
    /\ page' = Append(page, "pyplot")
    /\ pc' = "L85"
    /\ UNCHANGED << task, duration, noise_level, start, task_params, error,
                    t, params, base_hrf, smoothed_hrf, signal, draws, oxy,
                    deoxy, coi >>

\* line 85
Index ==
    /\ pc = "L85"
    /\ coi' = CoiOf(oxy, deoxy)
    /\ pc' = "L86"
    /\ UNCHANGED << task, duration, noise_level, start, task_params, page,
                    error, t, params, base_hrf, smoothed_hrf, signal, draws,
                    oxy, deoxy >>

\* line 86
Metric ==
    /\ pc = "L86"
    /\ page' = Append(page, "metric")
    /\ pc' = "L89"
    /\ UNCHANGED << task, duration, noise_level, start, task_params, error,
                    t, params, base_hrf, smoothed_hrf, signal, draws, oxy,
                    deoxy, coi >>

\* lines 89-94
Interpret ==
    /\ pc = "L89"
    /\ page' = Append(page, InterpretOf(coi))
    /\ pc' = "done"
    /\ UNCHANGED << task, duration, noise_level, start, task_params, error,
                    t, params, base_hrf, smoothed_hrf, signal, draws, oxy,
                    deoxy, coi >>

Next ==
    \/ ChangeTask
    \/ ChangeDuration
    \/ ChangeNoise
    \/ PressStart
    \/ WriteHeader
    \/ TimeVector
    \/ LookupParams
    \/ BaseHrf
    \/ ModulatedSignal
    \/ AddNoise
    \/ Channels
    \/ Plot
    \/ Index
    \/ Metric
    \/ Interpret

Spec == Init /\ [][Next]_vars

-----------------------------------------------------------------------------
(* The interpretation step on its own: executions that stand at line 89    *)
(* with an index drawn from a grid of quotients around the two thresholds, *)
(* beside the executions of Spec.  A zero denominator comes with a         *)
(* negative numerator only: line 85 makes the denominator zero only when   *)
(* mean(oxy) is below zero.                                                *)

CoiMax == 120

CoiInputs ==
    { << n, d >> : n \in (-CoiMax)..CoiMax, d \in { -100, -20, 20, 100 } }
    \cup { << n, 0 >> : n \in (-CoiMax)..(-1) }

InitInterpret ==
    /\ task = "Resting State"
    /\ duration = DurationDefault
    /\ noise_level = NoiseDefault
    /\ start = TRUE
    /\ task_params = TaskTable
    /\ pc = "L89"
    /\ page = << "header", "pyplot", "metric" >>
    /\ error = "none"
    /\ t = << >>
    /\ params = << >>
    /\ base_hrf = << >>
    /\ smoothed_hrf = << >>
    /\ signal = << >>
    /\ draws = << >>
    /\ oxy = << >>
    /\ deoxy = << >>
    /\ coi \in CoiInputs

SpecInterpret == (Init \/ InitInterpret) /\ [][Next]_vars

-----------------------------------------------------------------------------
(* Vocabulary of the properties *)

Statements ==
    << "L56", "L59", "L60", "L63", "L64", "L68", "L71", "L75", "L85", "L86",
       "L89", "done" >>

Pos(l) == CHOOSE i \in 1..Len(Statements) : Statements[i] = l

\* The triggered execution has come to statement l: every statement before
\* l has been executed.  An execution that failed stopped in line 60.
Reached(l) == start /\ Pos(IF pc = "failed" THEN "L60" ELSE pc) >= Pos(l)

Samples == duration * SampleRate

RatEq(a, b) == a[1] * b[2] = b[1] * a[2]

RatLess(a, b) == a[1] * b[2] < b[1] * a[2]

\* t[i + 1] - t[i]
Gap(i) ==
    << t[i + 1][1] * t[i][2] - t[i][1] * t[i + 1][2], t[i][2] * t[i + 1][2] >>

StatusMessages == { "success", "warning", "error" }

\* c =< q, as float64 compares
Le(c, q) ==
    IF c[2] > 0 THEN c[1] * q[2] =< q[1] * c[2]
    ELSE IF c[2] < 0 THEN c[1] * q[2] >= q[1] * c[2]
    ELSE c[1] < 0

\* The samples of a run written out from the run's inputs: sample i of the
\* time axis, of the 30 s grid, of the smoothed HRF, of the signal before the
\* noise, and of the two channels given the noise term of that sample
RefTime(dur, i) == << (i - 1) * dur, dur * SampleRate - 1 >>

RefGrid(dur, i) == << (i - 1) * 30, dur * SampleRate - 1 >>

RefFifth(dur, j) ==
    IF j >= 1 /\ j =< dur * SampleRate
    THEN RoundDiv(hrf(RefGrid(dur, j)), 5)
    ELSE 0

RefSmoothed(dur, i) ==
    RefFifth(dur, i - 2) + RefFifth(dur, i - 1) + RefFifth(dur, i)
    + RefFifth(dur, i + 1) + RefFifth(dur, i + 2)

RefClean(tk, dur, i) ==
    LET p  == TaskTable[tk]
        ti == RefTime(dur, i)
    IN  DecMul(p.amp, SinPi(2 * p.freq[1] * ti[1], p.freq[2] * ti[2]))
        + RefSmoothed(dur, i)

RefDrift(dur, i) == SinPi(RefTime(dur, i)[1], 10 * RefTime(dur, i)[2])

\* the two channels at a sample whose signal is sig and whose drift is dr
RefOxy(sig, dr) == sig + DecMul(<< 5, 10 >>, dr)

RefDeoxy(sig, dr) == DecMul(<< -6, 10 >>, sig) + DecMul(<< 2, 10 >>, dr)

-----------------------------------------------------------------------------
(* C1: in a triggered run the time vector, the HRF grid values, the         *)
(* smoothed HRF, the signal and both channels each have duration * 20       *)
(* samples, at most 600, whatever the task, duration and noise level.       *)
C1_Lengths ==
    /\ Samples =< 600
    /\ Reached("L60") => Len(t) = Samples
    /\ Reached("L64") => Len(base_hrf) = Samples
    /\ Reached("L68") => Len(smoothed_hrf) = Samples /\ Len(signal) = Samples
    /\ Reached("L71") => Len(draws) = Samples /\ Len(signal) = Samples
    /\ Reached("L75") => Len(oxy) = Samples /\ Len(deoxy) = Samples

C1_Witness ==
    /\ start /\ pc = "done"
    /\ duration = DurationMax
    /\ Len(t) = 600 /\ Len(oxy) = 600 /\ Len(deoxy) = 600
    /\ Len(smoothed_hrf) = 600

(* C2: the time vector starts at 0, ends at duration exactly, has equal     *)
(* steps (each duration / (N - 1)) and is strictly increasing.              *)
C2_TimeAxis ==
    Reached("L60") =>
        /\ Len(t) = Samples
        /\ RatEq(t[1], << 0, 1 >>)
        /\ RatEq(t[Len(t)], << duration, 1 >>)
        /\ \A i \in 1..(Len(t) - 1) :
              /\ RatLess(t[i], t[i + 1])
              /\ RatEq(Gap(i), << duration, Len(t) - 1 >>)

C2_Witness ==
    /\ Reached("L60")
    /\ duration = DurationMin
    /\ Len(t) = 100
    /\ t[2] = << 5, 99 >>
    /\ t[100] = << 5, 1 >>

(* C3: a finished triggered run shows exactly one status message: success   *)
(* (High) when coi > 0.55, warning (Moderate) when 0.45 < coi <= 0.55,      *)
(* error (Low) when coi <= 0.45; coi = 0.55 gives Moderate and coi = 0.45   *)
(* gives Low.                                                               *)
C3_Interpretation ==
    (start /\ pc = "done") =>
        LET shown == { i \in 1..Len(page) : page[i] \in StatusMessages }
            last  == page[Len(page)]
        IN  /\ Cardinality(shown) = 1
            /\ shown = { Len(page) }
            /\ Gt(coi, << 55, 100 >>) => last = "success"
            /\ (Gt(coi, << 45, 100 >>) /\ Le(coi, << 55, 100 >>))
                   => last = "warning"
            /\ Le(coi, << 45, 100 >>) => last = "error"
            /\ (coi[2] # 0 /\ RatEq(coi, << 55, 100 >>)) => last = "warning"
            /\ (coi[2] # 0 /\ RatEq(coi, << 45, 100 >>)) => last = "error"

C3_Witness ==
    /\ start /\ pc = "done"
    /\ coi = << 11, 20 >>
    /\ page = << "header", "pyplot", "metric", "warning" >>

(* C4: the lookup of line 60 fails (KeyError, the UnknownTaskError of the   *)
(* design) exactly for a task name that is none of the five, and for one of *)
(* the five it yields that task's entry and the run goes on.                *)
C4_Lookup ==
    Reached("L63") \/ (start /\ pc = "failed") =>
        IF task \in RadioOptions
        THEN /\ pc # "failed"
             /\ error = "none"
             /\ params = << TaskTable[task] >>
        ELSE /\ pc = "failed"
             /\ error = "KeyError"
             /\ params = << >>

C4_Witness ==
    /\ start /\ pc = "failed"
    /\ task = UnknownTask
    /\ error = "KeyError"

C6_ZeroNoise ==
    (start /\ pc = "done" /\ noise_level = 0) =>
        /\ Len(oxy) = Samples
        /\ Len(deoxy) = Samples
        /\ \A i \in 1..Samples :
              LET clean == RefClean(task, duration, i)
                  dr    == RefDrift(duration, i)
              IN  /\ oxy[i] = RefOxy(clean, dr)
                  /\ deoxy[i] = RefDeoxy(clean, dr)

C6_Witness ==
    /\ start /\ pc = "done"
    /\ noise_level = 0
    /\ task = "Visual Task"
    /\ \A i \in 1..Len(draws) : draws[i] # 0
    /\ Len(oxy) = Samples

C8_UnitInterval ==
    Reached("L86") => (coi[2] > 0 /\ 0 < coi[1] /\ coi[1] < coi[2])

(* C9: the task table holds its five original entries in every state, and   *)
(* what a finished run shows is determined by the task, the duration, the   *)
(* noise level and the draws of that run alone.                             *)
C9_NoCarriedState ==
    /\ task_params = TaskTable
    /\ (start /\ pc = "done") =>
          /\ Len(oxy) = Samples
          /\ Len(deoxy) = Samples
          /\ \A i \in 1..Samples :
                LET sig == RefClean(task, duration, i)
                           + DecMul(<< noise_level, 100 >>, draws[i])
                    dr  == RefDrift(duration, i)
                IN  /\ oxy[i] = RefOxy(sig, dr)
                    /\ deoxy[i] = RefDeoxy(sig, dr)
          /\ coi = << Mean(oxy), Mean(oxy) + Abs(Mean(deoxy)) + 1 >>
          /\ page = << "header", "pyplot", "metric", InterpretOf(coi) >>

C9_Witness ==
    /\ start /\ pc = "done"
    /\ task = "Cognitive Test"
    /\ duration = DurationMin
    /\ noise_level = NoiseMax
    /\ \E i \in 1..Len(draws) : draws[i] # 0
    /\ task_params = TaskTable

(* C10: smoothed_hrf has as many samples as base_hrf, and its sample i is   *)
(* the sum over j = i-2..i+2 of a fifth of base_hrf[j] (each fifth rounded  *)
(* to the unit), with base_hrf[j] taken as 0 outside 1..N.                  *)
C10_MovingAverage ==
    Reached("L68") =>
        LET n == Len(base_hrf)
            Fifth(j) == IF j >= 1 /\ j =< n THEN RoundDiv(base_hrf[j], 5) ELSE 0
        IN  /\ n = Samples
            /\ Len(smoothed_hrf) = n
            /\ \A i \in 1..n :
                  smoothed_hrf[i] =
                      Fifth(i - 2) + Fifth(i - 1) + Fifth(i) + Fifth(i + 1)
                      + Fifth(i + 2)

C10_Witness ==
    /\ Reached("L68")
    /\ duration = DurationMin
    /\ Len(smoothed_hrf) = 100
    /\ smoothed_hrf[1] # smoothed_hrf[3]
    /\ smoothed_hrf[20] > 0

=============================================================================
